---- MODULE Spec2Model ----
(***************************************************************************)
(* A model of the conflict-aware merge engine of the knowledge-graph       *)
(* repository: the three conflict resolvers of conflict_experiment.py,     *)
(* the merge transaction of knowledge_graph_updater.py, the batch run of   *)
(* text_processor (process_json_files, process_json_chunk: node loop,      *)
(* filter, relationship stage), the relationship writers of neo4j_crud.py  *)
(* and generate_additional_relationships.py, and the conflict queue file   *)
(* of conflict_resolution.py.                                              *)
(*                                                                         *)
(* Numbers.  The code computes with floats; the model computes the same    *)
(* rationals exactly, as scaled integers:                                  *)
(*   source weight, base_weight  in hundredths        (0.7  -> 70)         *)
(*   time_freshness              in 1/3650            (1.0  -> 3650)       *)
(*   time_decay                  in 1/200             (1.0  -> 200)        *)
(*   content_quality             in 1/400             (1.0  -> 400)        *)
(*   final_score                 in 1/292000          (1.0  -> 292000)     *)
(* Dates are whole days; a datetime is [aware, day]: Python refuses to     *)
(* compare or subtract an offset-aware and an offset-naive datetime.       *)
(* A similarity is a float32 dot product turned into a Python float: the   *)
(* model counts it in units of 2^-24, the spacing of float32 in [0.5, 1).  *)
(***************************************************************************)
EXTENDS Integers, Sequences, FiniteSets, TLC

VARIABLES
    facts,      \* conflicting_facts: the list handed to the resolvers
    now,        \* the wall clock read by datetime.now(), in days
    last,       \* what the latest resolver call returned (or raised)
    store,      \* the graph store: Attraction and City nodes, edges, UpdateLog nodes
    call,       \* the latest update_knowledge_graph call: its arguments, outcome and committed writes
    applied,    \* per entity name, the fact of the latest committed entity upsert
    nCalls,     \* update_knowledge_graph calls made so far
    nLogged,    \* calls whose UpdateLog write was committed
    nodes,      \* the "nodes" list of the JSON file handed to process_json_files
    run,        \* where the batch run stands: "files", "chunk", "stage", "done", "failed"
    batch,      \* data: the items handed to process_json_chunk
    pos,        \* the item the node loop of process_json_chunk handles next
    results,    \* the per-item report of process_json_chunk
    report,     \* what process_json_files returned
    conflictQueue,  \* the lines of conflict_queue.json
    readLog,    \* what the latest get_conflict_log call read, returned and logged
    stage,      \* the latest turn of the pair loop of the relationship stage
    llm,        \* how the latest infer_description call of the node loop ended
    retry,      \* the latest call_deepseek_with_retry call: its attempts and how it ended
    txs,        \* the update_knowledge_graph transactions in flight, per session
    weighing    \* the latest compute_dynamic_weight call: its arguments and result

resolverVars == <<facts, last>>
mergeVars == <<store, call, applied, nCalls, nLogged>>
batchVars == <<nodes, run, batch, pos, results, report>>
queueVars == <<conflictQueue, readLog, stage>>
laterVars == <<llm, retry, txs, weighing>>
vars == <<facts, now, last, store, call, applied, nCalls, nLogged, nodes, run, batch, pos,
          results, report, conflictQueue, readLog, stage, llm, retry, txs, weighing>>

\* ------------------------------------------------------------------ bounds
MaxFacts == 2       \* longest list of conflicting facts
MaxTicks == 2       \* how many times the clock advances
MaxCalls == 2       \* how many merges are applied
MaxItems == 2       \* longest batch handed to process_json_chunk
DayStep == 200      \* days between two sampled dates
MaxStages == 2      \* how many turns of the relationship pair loop are taken
MaxProposals == 2   \* longest list of proposals in one collaborator response
MaxLines == 3       \* longest conflict queue file that is read

\* ------------------------------------------------------- program constants
DefaultWeightWF == 0        \* .get('weight', 0)   in resolve_conflict_weight_first
DefaultWeightHybrid == 50   \* .get('weight', 0.5) in resolve_conflict_with_hybrid
DateMin == -1000000         \* datetime.min, before every sampled date
YearDays == 365             \* time_diff_days / 365
QualityLen == 200           \* len(content_value) / 200
MissingFreshness == 1095    \* time_freshness = 0.3, in 1/3650
MissingDecay == 60          \* time_decay = 0.3, in 1/200
SimOne == 16777216          \* similarity 1.0, in 2^-24
ScenarioDays == 1212        \* days from 2020-06-10 to 2023-10-05, the equal-weight test case

\* ------------------------------------------------------------------ inputs
NoUrl == "<no url>"
WeightSamples == {40, 70}
LenSamples == {100, 300}
UrlSamples == {"http://a", "http://b"}
TsDays == {0, DayStep}

\* fact['timestamp']: missing (absent or ''), bad (unparsable text), or an ISO
\* date, offset-naive ("2023-05-20T09:15:00") or offset-aware ("...Z").
Timestamps ==
    {[kind |-> "missing", day |-> 0], [kind |-> "bad", day |-> 0]}
    \cup [kind : {"naive", "aware"}, day : TsDays]

Fact(hw, w, ts, l, u) ==
    [hasWeight |-> hw, weight |-> w, timestamp |-> ts, len |-> l, url |-> u]

\* Facts that differ in weight, timestamp and value length, without a URL.
RankingPool ==
    {Fact(TRUE, w, ts, l, NoUrl) : w \in WeightSamples, ts \in Timestamps, l \in LenSamples}
    \cup {Fact(FALSE, 0, ts, l, NoUrl) : ts \in Timestamps, l \in LenSamples}

\* Facts that differ in their source URL.
UrlPool ==
    {Fact(TRUE, w, [kind |-> "naive", day |-> 0], 100, u) :
        w \in WeightSamples, u \in UrlSamples}

\* The two facts of the equal-weight test case: weight 0.7 both, the older
\* timestamp more than three years before the newer one.
ScenarioPool ==
    {Fact(TRUE, 70, [kind |-> k, day |-> d], l, NoUrl) :
        k \in {"naive", "aware"}, d \in {0 - ScenarioDays, 0}, l \in LenSamples}

FactPool == RankingPool \cup UrlPool \cup ScenarioPool

FactLists == UNION {[1..n -> FactPool] : n \in 0..MaxFacts}

\* ----------------------------------------------------------------- helpers
Min(a, b) == IF a < b THEN a ELSE b
Max(a, b) == IF a > b THEN a ELSE b

\* sorted(xs, key=..., reverse=True)[p], as an index into xs: Python's sort is
\* stable, and reverse=True keeps the original order of equal keys.
Before(key, i, j) == key[i] > key[j] \/ (key[i] = key[j] /\ i < j)

SortedDesc(key) ==
    LET n == Len(key)
        place(i) == 1 + Cardinality({j \in 1..n : Before(key, j, i)})
    IN  [p \in 1..n |-> CHOOSE i \in 1..n : place(i) = p]

\* What a resolver call leaves behind: the winner as an index into the input
\* list (0: the empty dict {}), the per-fact scores and details in input order,
\* the explanation's "scores" dict as a set of key/value entries, the
\* clock reading the call took (0 when it takes none), and the explanation's
\* "reason" (NoExplanation when the call returns a fact and nothing else).
Result(op, raised, winner, scores, details, explanation, at, reason) ==
    [op |-> op, raised |-> raised, winner |-> winner, scores |-> scores,
     details |-> details, explanation |-> explanation, at |-> at, reason |-> reason]

NoExplanation == "<no explanation>"
NoFactsReason == "no conflicting facts were supplied"       \* "没有提供冲突事实"

NoResult == Result("none", FALSE, 0, <<>>, <<>>, {}, 0, NoExplanation)

\* ------------------------------------------- resolve_conflict_weight_first
WeightKey(f) == IF f.hasWeight THEN f.weight ELSE DefaultWeightWF

\* A variant that sorts ascending and takes the last element: the heaviest
\* fact still, but the last of a tie.
WeightFirstLastOfTie(xs) ==
    LET n == Len(xs)
        key == [i \in 1..n |-> WeightKey(xs[i])]
    IN  IF xs = <<>>
        THEN Result("weight", FALSE, 0, <<>>, <<>>, {}, 0, NoExplanation)
        ELSE Result("weight", FALSE,
                    CHOOSE i \in 1..n :
                        \A j \in 1..n : key[j] < key[i] \/ (key[j] = key[i] /\ j <= i),
                    <<>>, <<>>, {}, 0, NoExplanation)

resolve_conflict_weight_first(xs) ==
    IF xs = <<>>
    THEN Result("weight", FALSE, 0, <<>>, <<>>, {}, 0, NoExplanation)
    ELSE Result("weight", FALSE,
                SortedDesc([i \in 1..Len(xs) |-> WeightKey(xs[i])])[1],
                <<>>, <<>>, {}, 0, NoExplanation)

\* ------------------------------------------- resolve_conflict_latest_first
\* datetime.fromisoformat(...): the parsed datetime, offset-aware or naive;
\* datetime.min (naive) for a missing or unparsable timestamp.
parse_timestamp(f) ==
    IF f.timestamp.kind \in {"naive", "aware"}
    THEN [aware |-> f.timestamp.kind = "aware", day |-> f.timestamp.day]
    ELSE [aware |-> FALSE, day |-> DateMin]

\* sorted() compares keys until the order is settled; the comparisons connect
\* all elements, so a list holding an aware and a naive key meets one mixed
\* comparison, which raises TypeError (not caught by the resolver).
MixedKeys(keys) ==
    \E i, j \in 1..Len(keys) : keys[i].aware /\ ~keys[j].aware

resolve_conflict_latest_first(xs) ==
    LET keys == [i \in 1..Len(xs) |-> parse_timestamp(xs[i])]
    IN  IF xs = <<>>
        THEN Result("latest", FALSE, 0, <<>>, <<>>, {}, 0, NoExplanation)
        ELSE IF MixedKeys(keys)
        THEN Result("latest", TRUE, 0, <<>>, <<>>, {}, 0, NoExplanation)
        ELSE Result("latest", FALSE,
                    SortedDesc([i \in 1..Len(xs) |-> keys[i].day])[1],
                    <<>>, <<>>, {}, 0, NoExplanation)

\* -------------------------------------------- resolve_conflict_with_hybrid
\* (now - fact_time).days; `now` is naive, so the subtraction raises TypeError
\* for an offset-aware fact_time, and the except branch takes over.
TimeRaises(f) == f.timestamp.kind \in {"bad", "aware"}

TimeDiffDays(f, clock) == clock - f.timestamp.day

\* max(0.3, 1 - (time_diff_days / 30) * 0.15), in 1/200
TimeDecay(f, clock) ==
    IF f.timestamp.kind = "missing" \/ TimeRaises(f)
    THEN MissingDecay
    ELSE Max(MissingDecay, 200 - TimeDiffDays(f, clock))

\* 1.0 - min(1.0, time_diff_days / 365) * 0.7, in 1/3650 (3650 = 10 * YearDays)
TimeFreshness(f, clock) ==
    IF f.timestamp.kind = "missing" \/ TimeRaises(f)
    THEN MissingFreshness
    ELSE 3650 - 7 * Min(YearDays, TimeDiffDays(f, clock))

\* min(1.0, len(content_value) / 200) * 0.5 + 0.5, in 1/400 (400 = 2 * QualityLen)
ContentQuality(f) == Min(QualityLen, f.len) + QualityLen

BaseWeight(f) == IF f.hasWeight THEN f.weight ELSE DefaultWeightHybrid

\* base_weight * 0.6 + time_freshness * 0.3 + content_quality * 0.1, in 1/292000
FinalScore(f, clock) ==
    1752 * BaseWeight(f) + 24 * TimeFreshness(f, clock) + 73 * ContentQuality(f)

Details(f, clock) ==
    [base_weight |-> BaseWeight(f), time_decay |-> TimeDecay(f, clock),
     time_freshness |-> TimeFreshness(f, clock), content_quality |-> ContentQuality(f)]

\* fact.get('source', {}).get('url', f"事实{i}"), i the position in sorted_facts
ExplanationKey(f, i) ==
    IF f.url = NoUrl THEN [url |-> NoUrl, rank |-> i] ELSE [url |-> f.url, rank |-> 0]

\* The dict comprehension over enumerate(sorted_facts): a later entry with the
\* same key replaces the earlier one.
Explanation(xs, order, clock) ==
    LET n == Len(xs)
        key(p) == ExplanationKey(xs[order[p]], p - 1)
        kept == {p \in 1..n : \A q \in 1..n : key(q) = key(p) => q <= p}
    IN  {[key |-> key(p), final_score |-> FinalScore(xs[order[p]], clock),
          details |-> Details(xs[order[p]], clock)] : p \in kept}

resolve_conflict_with_hybrid(xs, clock) ==
    LET n == Len(xs)
        scores == [i \in 1..n |-> FinalScore(xs[i], clock)]
        order == SortedDesc(scores)
    IN  IF xs = <<>>
        THEN Result("hybrid", FALSE, 0, <<>>, <<>>, {}, clock, NoFactsReason)
        ELSE Result("hybrid", FALSE, order[1], scores,
                    [i \in 1..n |-> Details(xs[i], clock)],
                    Explanation(xs, order, clock), clock,
                    "winner chosen by the combined score")

\* ------------------------------------------------------------ the store
\* A dict key that is not there.
Absent == "<absent>"

NAMUCUO_ALIAS == "Namucuo (cuo4 'wrong')"     \* "纳木错"
NAMUCUO == "Namucuo (cuo4 'measure')"         \* "纳木措"
POTALA == "Potala"
LHASA == "Lhasa"                              \* "拉萨市"
SHIGATSE == "Shigatse"
DANGXIONG == "Dangxiong County"               \* "当雄县"

EmptyStore == [attractions |-> <<>>, cities |-> {}, rels |-> <<>>, updateLogs |-> <<>>]

\* MERGE (n {name: $name}) SET n += $props on a map from names to property maps:
\* the node is created when absent, and every key of props is overwritten.
Upsert(map, name, props) ==
    [n \in DOMAIN map \cup {name} |-> IF n = name THEN props ELSE map[n]]

\* An edge of the store.
Edge(source, target, type, properties) ==
    [source_name |-> source, target_name |-> target, type |-> type,
     properties |-> properties]

\* SET r += $props on a property map: the keys of props are written, the
\* other keys are kept.
SetProps(old, props) ==
    [key \in DOMAIN old \cup DOMAIN props |->
        IF key \in DOMAIN props THEN props[key] ELSE old[key]]

MergeEdgeAlwaysCreate(rels, source, target, type, properties) ==
    Append(rels, Edge(source, target, type, properties))

\* MATCH (a {name: $a}) MATCH (b {name: $b}) MERGE (a)-[r:T]->(b) SET r += $props
\* on the list of edges: every edge of that type between the two nodes gets
\* the properties, and one is created when there is none.
MergeEdge(rels, source, target, type, properties) ==
    IF \E k \in 1..Len(rels) :
            /\ rels[k].source_name = source /\ rels[k].target_name = target
            /\ rels[k].type = type
    THEN [k \in 1..Len(rels) |->
            IF /\ rels[k].source_name = source /\ rels[k].target_name = target
               /\ rels[k].type = type
            THEN [rels[k] EXCEPT !.properties = SetProps(@, properties)]
            ELSE rels[k]]
    ELSE Append(rels, Edge(source, target, type, properties))

\* utils.normalize_location: CITY_MAP.get(location, location); the counties of
\* the table all map to "拉萨市".
normalize_location(location) ==
    IF location \in {LHASA, DANGXIONG} THEN LHASA ELSE location

\* ----------------------------------------------------- KnowledgeGraphUpdater
preprocess_data(data) ==
    IF data.name = NAMUCUO_ALIAS THEN [data EXCEPT !.name = NAMUCUO] ELSE data

Get(v, default) == IF v = Absent THEN default ELSE v

\* f"Description for {data.get('name', 'Unknown')}"
DescriptionFor(name) ==
    CASE name = NAMUCUO -> "Description for Namucuo (cuo4 'measure')"
      [] name = NAMUCUO_ALIAS -> "Description for Namucuo (cuo4 'wrong')"
      [] name = POTALA -> "Description for Potala"
      [] OTHER -> "Description for Unknown"

\* datetime.now(tz).isoformat() + "+08:00": the text of the clock reading
ClockStamp(clock) == [kind |-> "clock", at |-> clock]
GivenStamp(day) == [kind |-> "given", at |-> day]
NoStamp == [kind |-> "absent", at |-> 0]

attraction_data(data, clock) ==
    [name |-> Get(data.name, ""),
     location |-> Get(data.location, LHASA),
     address |-> Get(data.address, ""),
     description |-> Get(data.description, DescriptionFor(data.name)),
     pub_timestamp |-> IF data.pub_timestamp = NoStamp
                       THEN ClockStamp(clock) ELSE data.pub_timestamp]

log_data(attraction, reason, log_id, weights, clock) ==
    [name |-> log_id, log_id |-> log_id, entity_name |-> attraction.name,
     reason |-> reason, weights |-> weights, timestamp |-> clock]

\* What the store answers to one tx.run(...): a record ("ok"), no record
\* (.single() is None: "none"), or an exception ("raise").
Outcomes ==
    [attraction : {"ok", "none", "raise"}, city : {"ok", "none", "raise"},
     rel : {"ok", "none", "raise"}, log : {"ok", "raise"}]

\* tx_work up to its return or exception: the store as the transaction leaves
\* it, the writes it made, and whether it raised.
Tx(st, writes, raised) == [store |-> st, writes |-> writes, raised |-> raised]

WriteLog(st, a, reason, log_id, weights, clock) ==
    [st EXCEPT !.updateLogs =
        Upsert(@, log_id, log_data(a, reason, log_id, weights, clock))]

WriteEdge(st, a, reason) ==
    [st EXCEPT !.rels = MergeEdge(@, a.name, a.location, "LOCATED_IN", [reason |-> reason])]

tx_work(st, data, reason, log_id, weights, clock, o) ==
    LET a == attraction_data(data, clock)
        s1 == [st EXCEPT !.attractions = Upsert(@, a.name, a)]
        s2 == [s1 EXCEPT !.cities = @ \cup {a.location}]
        s3 == IF o.rel = "ok" THEN WriteEdge(s2, a, reason) ELSE s2
        w3 == IF o.rel = "ok" THEN {"attraction", "city", "edge"} ELSE {"attraction", "city"}
    IN  IF a.name = "" \/ a.location = "" THEN Tx(st, {}, FALSE)
        ELSE IF o.attraction = "raise" THEN Tx(st, {}, TRUE)
        ELSE IF o.attraction = "none" THEN Tx(st, {}, FALSE)
        ELSE IF o.city = "raise" THEN Tx(s1, {"attraction"}, TRUE)
        ELSE IF o.city = "none" THEN Tx(s1, {"attraction"}, FALSE)
        ELSE IF o.log = "raise" THEN Tx(s3, w3, TRUE)
        ELSE Tx(WriteLog(s3, a, reason, log_id, weights, clock), w3 \cup {"log"}, FALSE)

\* session.execute_write(tx_work, ...): commit when tx_work returns, roll back
\* and re-raise when it raises; ValueError before any transaction when the
\* name is missing or empty.
update_knowledge_graph(st, data, log_id, reason, weights, clock, o) ==
    LET t == tx_work(st, preprocess_data(data), reason, log_id, weights, clock, o)
    IN  IF data.name \in {Absent, ""} THEN Tx(st, {}, TRUE)
        ELSE IF t.raised THEN Tx(st, {}, TRUE)
        ELSE t

\* --------------------------------------------------- conflict_queue.json
\* A line of the file.  kind "record": a JSON object and its newline, as
\* log_conflict writes it; "list": the text "[]" without newline, as main
\* writes it; "malformed": text json.loads rejects with JSONDecodeError (also
\* an empty line); "unreadable": text on which the read raises another
\* exception (RecursionError on deep nesting, ValueError on an integer of more
\* than 4300 digits, UnicodeDecodeError on bytes that are not UTF-8).
Line(kind, entity_name, conflict_data) ==
    [kind |-> kind, entity_name |-> entity_name, conflict_data |-> conflict_data]

NoEdge == Edge("", "", "", <<>>)
ListLine == Line("list", <<>>, NoEdge)
MalformedLine == Line("malformed", <<>>, NoEdge)
UnreadableLine == Line("unreadable", <<>>, NoEdge)

\* open(file, "a"); json.dump(conflict, f); f.write("\n").  An exception is
\* logged and swallowed.  Text appended after a last line that has no newline
\* continues that line: '[]{"entity_name": ...}' is not JSON.
log_conflict(file, conflict, io) ==
    IF io = "fail" THEN file
    ELSE IF file # <<>> /\ file[Len(file)].kind = "list"
    THEN [file EXCEPT ![Len(file)] = MalformedLine]
    ELSE Append(file, Line("record", conflict.entity_name, conflict.conflict_data))

\* get_conflict_log: the parsed lines, one logged error per JSONDecodeError;
\* any other exception ends the read with one logged error and returns [].
get_conflict_log(file) ==
    LET stop == {k \in 1..Len(file) : file[k].kind = "unreadable"}
        first == CHOOSE k \in stop : \A j \in stop : k <= j
        read == IF stop = {} THEN 1..Len(file) ELSE 1..(first - 1)
        bad == Cardinality({k \in read : file[k].kind = "malformed"})
    IN  IF stop = {}
        THEN [read |-> TRUE, file |-> file,
              conflicts |-> SelectSeq(file, LAMBDA l : l.kind \in {"record", "list"}),
              errors |-> bad, aborted |-> FALSE]
        ELSE [read |-> TRUE, file |-> file, conflicts |-> <<>>, errors |-> bad + 1,
              aborted |-> TRUE]

NoRead == [read |-> FALSE, file |-> <<>>, conflicts |-> <<>>, errors |-> 0, aborted |-> FALSE]

\* ------------------------------------------------------------ similarity
\* The {"reason": ..., "confidence": ...} of a proposal, one text per sampled
\* pair of values, and the properties create_relationship_in_db writes.
PropTexts == {"props 1", "props 2", "props 3"}
Props(text) == [reason_confidence |-> text]
GeneratorProps(text) == [reason_confidence |-> text, created_by |-> "relationship_generator"]

\* json.dumps(properties): a text that tells the property maps apart; never empty.
json_dumps(properties) == [text |-> properties]
EmptyText == [text |-> [empty |-> TRUE]]

\* embeddings[0] @ embeddings[1].T for the sampled texts, in units of 2^-24:
\* 1.0 for equal texts, the two float32 values next to 0.7 (0.7 * 2^24 =
\* 11744051.2 is between them), 0.8 for the same values with one more key,
\* and a negative product.
Encoded(text1, text2) ==
    LET p == text1.text
        q == text2.text
        both == {p.reason_confidence, q.reason_confidence}
    IN  CASE text1 = text2 -> SimOne
          [] "reason_confidence" \notin DOMAIN p \cap DOMAIN q -> 0
          [] both = {"props 1", "props 2"} -> 11744052
          [] both = {"props 1", "props 3"} -> 11744051
          [] Cardinality(both) = 1 -> 13421773
          [] OTHER -> 0 - 4194304

compute_semantic_similarity(text1, text2, enc) ==
    IF text1 = EmptyText \/ text2 = EmptyText THEN 0
    ELSE IF enc = "fail" THEN 0
    ELSE Max(0, Min(SimOne, Encoded(text1, text2)))

AboveThresholdLow(similarity) == 10 * similarity > 6 * SimOne

\* similarity > 0.7, both sides in units of 2^-24 and times ten.
AboveThreshold(similarity) == 10 * similarity > 7 * SimOne

check_relationship_conflict(rel, existing_rels, enc) ==
    \E k \in 1..Len(existing_rels) :
        /\ rel.source_name = existing_rels[k].source_name
        /\ rel.target_name = existing_rels[k].target_name
        /\ rel.type = existing_rels[k].type
        /\ AboveThreshold(compute_semantic_similarity(
                json_dumps(rel.properties), json_dumps(existing_rels[k].properties), enc))

\* ------------------------------------------------------- relationship writers
\* MERGE (n:Attraction {name: $name}) without SET: a node with nothing but its name.
BareNode(name) ==
    [name |-> name, location |-> Absent, address |-> Absent,
     description |-> Absent, pub_timestamp |-> NoStamp]

EnsureNode(map, name) ==
    IF name \in DOMAIN map THEN map ELSE Upsert(map, name, BareNode(name))

\* The answers create_relationship can meet from its two queries.
CreateOutcomes ==
    {[nodes |-> "ok", rel |-> "ok"], [nodes |-> "ok", rel |-> "none"],
     [nodes |-> "ok", rel |-> "raise"], [nodes |-> "none", rel |-> "ok"],
     [nodes |-> "raise", rel |-> "ok"]}

\* Neo4jCRUD.create_relationship, run on a session: each query commits on its own.
create_relationship(st, source_name, target_name, rel_type, properties, o) ==
    LET s1 == [st EXCEPT !.attractions = EnsureNode(EnsureNode(@, source_name), target_name)]
    IN  IF o.nodes # "ok" THEN st
        ELSE IF o.rel # "ok" THEN s1
        ELSE [s1 EXCEPT !.rels = MergeEdge(@, source_name, target_name, rel_type, properties)]

\* generate_additional_relationships.create_relationship_in_db: the MATCH of a
\* node that is not there yields no row, and nothing is written.
create_relationship_in_db(st, source_name, target_name, rel_type, properties, o) ==
    IF o # "ok" THEN st
    ELSE IF source_name \notin DOMAIN st.attractions \/ target_name \notin DOMAIN st.attractions
    THEN st
    ELSE [st EXCEPT !.rels = MergeEdge(@, source_name, target_name, rel_type, properties)]

\* Neo4jCRUD.get_relationships: the outgoing edges of the node; an exception
\* that is not a syntax error yields [].
get_relationships(st, name, o) ==
    IF o = "raise" THEN <<>>
    ELSE SelectSeq(st.rels, LAMBDA r : r.source_name = name)

\* ------------------------------------- process_json_chunk: relationship stage
\* An element of the list the enrichment collaborator answers: complete when it
\* is a dict with "type", "reason" and "confidence".
Proposal(type, properties, complete) ==
    [type |-> type, properties |-> properties, complete |-> complete]

\* for rel in relationships: ..., against the existing_rels read before the loop.
RECURSIVE ApplyProposals(_, _, _, _, _, _, _)
ApplyProposals(st, file, existing_rels, n1, n2, relationships, o) ==
    IF relationships = <<>> THEN [store |-> st, file |-> file]
    ELSE LET rel == Head(relationships)
             rel_data == Edge(n1, n2, rel.type, rel.properties)
         IN  IF ~rel.complete
             THEN ApplyProposals(st, file, existing_rels, n1, n2, Tail(relationships), o)
             ELSE IF check_relationship_conflict(rel_data, existing_rels, o.enc)
             THEN ApplyProposals(st,
                    log_conflict(file, [entity_name |-> <<n1, n2, rel.type>>,
                                        conflict_data |-> rel_data], o.io),
                    existing_rels, n1, n2, Tail(relationships), o)
             ELSE ApplyProposals(
                    create_relationship(st, n1, n2, rel.type, rel.properties, o.create),
                    file, existing_rels, n1, n2, Tail(relationships), o)

\* What the collaborator answers for a pair: an exception, text that is not
\* JSON, or a list of proposals.
Response(kind, relationships) == [kind |-> kind, relationships |-> relationships]

NoStage == [n |-> 0, n1 |-> "", n2 |-> "", response |-> Response("none", <<>>),
            answers |-> [get |-> "ok", create |-> [nodes |-> "ok", rel |-> "ok"],
                         io |-> "ok", enc |-> "ok"],
            existing_rels |-> <<>>, flagged |-> <<>>,
            storeBefore |-> EmptyStore, fileBefore |-> <<>>]

\* One turn of "for (node1, node2), response in zip(node_pairs, responses)".
RelationshipPair(st, file, n1, n2, response, o) ==
    IF response.kind # "list" THEN [store |-> st, file |-> file]
    ELSE ApplyProposals(st, file, get_relationships(st, n1, o.get), n1, n2,
                        response.relationships, o)

\* ---------------------------------------------------------- merge inputs
Data(name, location, address, description, pub) ==
    [name |-> name, location |-> location, address |-> address,
     description |-> description, pub_timestamp |-> pub]

\* The attribute sets a fact may carry: nothing but the name; every attribute;
\* other values and another container; an empty location.
DataPool ==
    {Data(n, Absent, Absent, Absent, NoStamp) : n \in {Absent, NAMUCUO_ALIAS, NAMUCUO, POTALA}}
    \cup {Data(n, LHASA, "address 1", "text 1", GivenStamp(0)) : n \in {NAMUCUO, POTALA}}
    \cup {Data(n, SHIGATSE, Absent, "text 2", GivenStamp(0)) : n \in {NAMUCUO}}
    \cup {Data(n, "", Absent, Absent, NoStamp) : n \in {NAMUCUO}}
    \cup {Data(n, DANGXIONG, Absent, Absent, NoStamp) : n \in {POTALA}}

LogIds == {"log 1", "log 2"}
Reason == "Initial import from JSON with LLM enhancement"
Weights == "{'rules_valid': 1.0, 'llm_valid': 0.8, 'weight_valid': 0.9}"

\* The answers tx_work can meet: a query after the one that ended tx_work is
\* never run.
ReachedOutcomes ==
    {o \in Outcomes :
        /\ o.attraction # "ok" => (o.city = "ok" /\ o.rel = "ok" /\ o.log = "ok")
        /\ o.city # "ok" => (o.rel = "ok" /\ o.log = "ok")}

NoCall == [data |-> Data(Absent, Absent, Absent, Absent, NoStamp), log_id |-> "",
           at |-> 0, answers |-> [attraction |-> "ok", city |-> "ok", rel |-> "ok", log |-> "ok"],
           outcome |-> "none", writes |-> {}, reapplied |-> FALSE,
           nodeBefore |-> <<>>, logsBefore |-> 0]

\* What process_json_files returns: {"status": "success", "processed", "failed",
\* "details"} or {"status": "failed", "error"}; "raised" stands for an exception
\* that leaves process_json_chunk when it was called directly.
NoReport == [status |-> "none", processed |-> 0, failed |-> 0, details |-> <<>>]
FailedReport == [status |-> "failed", processed |-> 0, failed |-> 0, details |-> <<>>]
RaisedReport == [status |-> "raised", processed |-> 0, failed |-> 0, details |-> <<>>]

\* ------------------------------------------------- call_deepseek_with_retry
StopAfterAttempt == 3       \* stop_after_attempt(3)

\* How one attempt ends: the response is returned ("ok"); ValueError for an
\* empty API key; httpx.RequestError (no connection, timeout); raise_for_status
\* raises httpx.HTTPStatusError for a 4xx or 5xx status; response.json() raises
\* on a body that is not JSON.
Ended(kind, status) == [kind |-> kind, status |-> status]

AttemptOutcomes ==
    {Ended(k, 0) : k \in {"ok", "no key", "ConnectError", "ReadTimeout", "bad body"}}
    \cup {Ended("HTTPStatusError", c) : c \in {400, 401, 500, 503}}

\* retry=retry_if_exception_type((httpx.HTTPStatusError, httpx.RequestError))
retry_if_exception_type(outcome) ==
    outcome.kind \in {"HTTPStatusError", "ConnectError", "ReadTimeout"}

\* The decorated call after one more attempt: it returns, raises the
\* exception of the attempt, goes on to the next attempt, or raises
\* tenacity.RetryError when the attempts are used up.
call_deepseek_with_retry(attempts, outcome) ==
    [attempts |-> Append(attempts, outcome),
     state |-> IF outcome.kind = "ok" THEN "returned"
               ELSE IF ~retry_if_exception_type(outcome) THEN "raised"
               ELSE IF Len(attempts) + 1 >= StopAfterAttempt THEN "RetryError"
               ELSE "running"]

NoRetry == [attempts |-> <<>>, state |-> "none"]

\* ------------------------------------- update_knowledge_graph, in sessions
\* Two callers, each with its own session and transaction.
Sessions == {1, 2}

\* A write of a transaction that is not committed yet.
Write(op, name, target, props) == [op |-> op, name |-> name, target |-> target, props |-> props]

\* The commit of a transaction: its writes reach the store together, in order.
RECURSIVE Commit(_, _)
Commit(st, buffer) ==
    IF buffer = <<>> THEN st
    ELSE LET w == Head(buffer)
             s1 == CASE w.op = "attraction" ->
                            [st EXCEPT !.attractions = Upsert(@, w.name, w.props)]
                      [] w.op = "city" -> [st EXCEPT !.cities = @ \cup {w.name}]
                      [] w.op = "edge" ->
                            [st EXCEPT !.rels = MergeEdge(@, w.name, w.target, "LOCATED_IN", w.props)]
                      [] OTHER -> [st EXCEPT !.updateLogs = Upsert(@, w.name, w.props)]
         IN  Commit(s1, Tail(buffer))

\* A session: where its update_knowledge_graph call stands ("idle" before the
\* call; the statement of tx_work it runs next; "commit"; "returned" or
\* "raised" after it), the arguments, the answers of the store, and the writes.
Session(pc, data, log_id, o, buffer) ==
    [pc |-> pc, data |-> data, log_id |-> log_id, answers |-> o, buffer |-> buffer]

NoTxs ==
    [s \in Sessions |->
        Session("idle", [name |-> Absent, location |-> Absent, address |-> Absent,
                         description |-> Absent, pub_timestamp |-> [kind |-> "absent", at |-> 0]],
                "", [attraction |-> "ok", city |-> "ok", rel |-> "ok", log |-> "ok"], <<>>)]

\* One statement of tx_work, run by a session whose call has begun.
Statement(tx, reason, weights, clock) ==
    LET a == attraction_data(tx.data, clock)
        o == tx.answers
    IN  CASE tx.pc = "attraction" ->
                IF a.name = "" \/ a.location = "" THEN [tx EXCEPT !.pc = "commit"]
                ELSE IF o.attraction = "raise" THEN [tx EXCEPT !.pc = "raised", !.buffer = <<>>]
                ELSE IF o.attraction = "none" THEN [tx EXCEPT !.pc = "commit"]
                ELSE [tx EXCEPT !.pc = "city",
                                !.buffer = Append(@, Write("attraction", a.name, "", a))]
          [] tx.pc = "city" ->
                IF o.city = "raise" THEN [tx EXCEPT !.pc = "raised", !.buffer = <<>>]
                ELSE IF o.city = "none" THEN [tx EXCEPT !.pc = "commit"]
                ELSE [tx EXCEPT !.pc = "edge",
                                !.buffer = Append(@, Write("city", a.location, "", <<>>))]
          [] tx.pc = "edge" ->
                IF o.rel # "ok" THEN [tx EXCEPT !.pc = "log"]
                ELSE [tx EXCEPT !.pc = "log",
                                !.buffer = Append(@, Write("edge", a.name, a.location,
                                                           [reason |-> reason]))]
          [] OTHER ->
                IF o.log = "raise" THEN [tx EXCEPT !.pc = "raised", !.buffer = <<>>]
                ELSE [tx EXCEPT !.pc = "commit",
                                !.buffer = Append(@, Write("log", tx.log_id,
                                    "", log_data(a, reason, tx.log_id, weights, clock)))]

\* ------------------------------------------------- compute_dynamic_weight
\* A weight is counted in units of 1/182500 (1.0 -> WeightOne): a rating in
\* tenths over 50, a multiplier in tenths over 10, a freshness in days over 365.
WeightOne == 182500

\* metrics.get("ratings", 0.0): a number (in tenths), text, or absent.
Rating(kind, tenths) == [kind |-> kind, tenths |-> tenths]

\* 0.8 for "crawler"; 1.0 for "manual" and for every other source type.
SourceMultiplier(source_type) == IF source_type = "crawler" THEN 8 ELSE 10

\* What raises inside the try: text / 5.0 (TypeError), fromisoformat of text
\* that is no date (ValueError), and the subtraction of an offset-naive
\* datetime from datetime.now().astimezone() (TypeError).
WeightRaises(data, metrics) ==
    \/ metrics.ratings.kind = "text"
    \/ data.pub_timestamp.kind \in {"bad", "naive"}

\* max(0.0, 1.0 - age_days / 365.0), in 1/365; no factor without a timestamp.
Freshness(data, clock) ==
    IF data.pub_timestamp.kind = "missing" THEN YearDays
    ELSE Max(0, YearDays - (clock - data.pub_timestamp.day))

compute_dynamic_weight(data, metrics, clock) ==
    IF WeightRaises(data, metrics) THEN 0
    ELSE Max(0, Min(WeightOne,
            (IF metrics.ratings.kind = "number" THEN metrics.ratings.tenths ELSE 0)
                * SourceMultiplier(data.source_type)
                * Freshness(data, clock)))

Weighing(called, data, metrics, result, at) ==
    [called |-> called, data |-> data, metrics |-> metrics, result |-> result, at |-> at]

NoWeighing ==
    Weighing(FALSE, [source_type |-> Absent, pub_timestamp |-> [kind |-> "missing", day |-> 0]],
             [ratings |-> Rating("absent", 0)], 0, 0)

\* --------------------------------------------------------------- the clock
\* Time passes between two calls.
Tick ==
    /\ now < MaxTicks * DayStep
    /\ now' = now + DayStep
    /\ UNCHANGED <<facts, last, mergeVars, batchVars, queueVars, laterVars>>

\* ---------------------------------------------------------- merge behaviour
Init ==
    /\ facts = <<>>
    /\ now = 0
    /\ last = NoResult
    /\ store = EmptyStore
    /\ call = NoCall
    /\ applied = <<>>
    /\ nCalls = 0
    /\ nLogged = 0
    /\ nodes = <<>>
    /\ run = "none"
    /\ batch = <<>>
    /\ pos = 1
    /\ results = <<>>
    /\ report = NoReport
    /\ conflictQueue = <<>>
    /\ readLog = NoRead
    /\ stage = NoStage
    /\ llm = "none"
    /\ retry = NoRetry
    /\ txs = NoTxs
    /\ weighing = NoWeighing

\* One call of update_knowledge_graph against the store, and the record of it.
Merge(data, log_id, o) ==
    LET d == preprocess_data(data)
        r == update_knowledge_graph(store, data, log_id, Reason, Weights, now, o)
    IN  /\ store' = r.store
        /\ call' = [data |-> d, log_id |-> log_id, at |-> now, answers |-> o,
                    outcome |-> IF r.raised THEN "raised" ELSE "returned",
                    writes |-> r.writes,
                    reapplied |-> d.name \in DOMAIN applied /\ applied[d.name] = d,
                    nodeBefore |-> IF d.name \in DOMAIN store.attractions
                                   THEN <<store.attractions[d.name]>> ELSE <<>>,
                    logsBefore |-> Cardinality(DOMAIN store.updateLogs)]
        /\ applied' = IF "attraction" \in r.writes THEN Upsert(applied, d.name, d)
                      ELSE applied
        /\ nLogged' = IF "log" \in r.writes THEN nLogged + 1 ELSE nLogged
        /\ nCalls' = nCalls + 1

UpdateKnowledgeGraph ==
    /\ nCalls < MaxCalls
    /\ \E data \in DataPool, log_id \in LogIds, o \in ReachedOutcomes :
        Merge(data, log_id, o)
    /\ UNCHANGED <<facts, now, last, batchVars, queueVars, laterVars>>

Next == UpdateKnowledgeGraph \/ Tick

Spec == Init /\ [][Next]_vars

\* ------------------------------------------------------ process_json_chunk
CrawlLogId(name) ==        \* f"{processed_item['name']}_{crawl_timestamp}"
    CASE name = NAMUCUO -> "Namucuo (cuo4 'measure')_2025-06-19T20:46:39.861593"
      [] name = NAMUCUO_ALIAS -> "Namucuo (cuo4 'wrong')_2025-06-19T20:46:39.861593"
      [] name = POTALA -> "Potala_2025-06-19T20:46:39.861593"
      [] OTHER -> "_2025-06-19T20:46:39.861593"

\* What the enrichment collaborator answers to infer_description: a text, an
\* empty text, or a failure after the retries.
LlmAnswers == {"text", "empty", "fail"}

infer_description(name, answer) ==
    CASE answer = "text" -> "text from the LLM"
      [] answer = "empty" -> ""
      [] OTHER -> DescriptionFor(name)

\* extract_relationships on an item that has a name (data['name'] raises
\* KeyError otherwise): the location and the description are filled in.
extract_relationships(data, answer) ==
    LET loc == IF data.location \in {Absent, ""} THEN LHASA ELSE data.location
    IN  [data EXCEPT
            !.location = loc,
            !.description = IF @ \in {Absent, ""}
                            THEN infer_description(data.name, answer) ELSE @]

\* An item of the file: the keys of a fact and "visitor_percentage".
Item(name, location, address, description, pub, visitor_percentage) ==
    [name |-> name, location |-> location, address |-> address,
     description |-> description, pub_timestamp |-> pub,
     visitor_percentage |-> visitor_percentage]

ItemPool ==
    {Item(Absent, Absent, Absent, Absent, NoStamp, "50%")}
    \cup {Item(n, Absent, Absent, Absent, NoStamp, Absent) : n \in {NAMUCUO_ALIAS, NAMUCUO}}
    \cup {Item(NAMUCUO, LHASA, "address 1", "text 1", GivenStamp(0), "50%"),
          Item(NAMUCUO, LHASA, "address 1", "text 2", GivenStamp(0), Absent),
          Item(POTALA, LHASA, Absent, "text 1", NoStamp, "35%"),
          Item(POTALA, Absent, Absent, Absent, NoStamp, "abc")}

Batches == UNION {[1..n -> ItemPool] : n \in 1..MaxItems}

\* float(item.get("visitor_percentage", "0%").strip("%")): ValueError on text
\* that is not a number.
PercentageRaises(item) == item.visitor_percentage \notin {Absent, "50%", "35%"}
VisitorPercentage(item) ==
    CASE item.visitor_percentage = "50%" -> 50
      [] item.visitor_percentage = "35%" -> 35
      [] OTHER -> 0

\* The run starts in process_json_files with the nodes of the file, or in
\* process_json_chunk with a list handed to it directly (nodes = <<>>).
InitBatch ==
    /\ facts = <<>>
    /\ now = 0
    /\ last = NoResult
    /\ store = EmptyStore
    /\ call = NoCall
    /\ applied = <<>>
    /\ nCalls = 0
    /\ nLogged = 0
    /\ \/ (run = "files" /\ nodes \in Batches /\ batch = <<>>)
       \/ (run = "chunk" /\ nodes = <<>> /\ batch \in Batches)
    /\ pos = 1
    /\ results = <<>>
    /\ report = NoReport
    /\ conflictQueue = <<>>
    /\ readLog = NoRead
    /\ stage = NoStage
    /\ llm = "none"
    /\ retry = NoRetry
    /\ txs = NoTxs
    /\ weighing = NoWeighing

\* unique_nodes: the first node of each name.
UniqueNodes(xs) ==
    SelectSeq([i \in 1..Len(xs) |-> [node |-> xs[i],
                                       first |-> \A j \in 1..(i - 1) : xs[j].name # xs[i].name]],
              LAMBDA e : e.first)

\* process_json_files up to its first chunk: node["name"] raises KeyError on a
\* node without name, and the except clause returns the failed report.
ReadNodes ==
    /\ run = "files"
    /\ IF \E i \in 1..Len(nodes) : nodes[i].name = Absent
       THEN /\ run' = "failed"
            /\ report' = FailedReport
            /\ batch' = batch
       ELSE /\ run' = "chunk"
            /\ report' = report
            /\ batch' = [i \in 1..Len(UniqueNodes(nodes)) |-> UniqueNodes(nodes)[i].node]
    /\ UNCHANGED <<facts, now, last, mergeVars, nodes, pos, results, queueVars, laterVars>>

\* The body of the node loop, for the item at pos.
ProcessItemNoName ==
    /\ run = "chunk"
    /\ pos <= Len(batch)
    /\ batch[pos].name = Absent
    /\ \E answer \in LlmAnswers :
        llm' = IF batch[pos].description \in {Absent, ""} THEN answer ELSE "unused"
    /\ results' = Append(results, [name |-> "Unknown", status |-> "failed"])
    /\ pos' = pos + 1
    /\ UNCHANGED <<facts, now, last, mergeVars, nodes, run, batch, report, queueVars,
                   retry, txs, weighing>>

ProcessItem ==
    /\ run = "chunk"
    /\ pos <= Len(batch)
    /\ batch[pos].name # Absent
    /\ \E answer \in LlmAnswers, o \in ReachedOutcomes :
        LET item == extract_relationships(batch[pos], answer)
            r == update_knowledge_graph(store, item, CrawlLogId(item.name), Reason,
                                        Weights, now, o)
        IN  /\ Merge(item, CrawlLogId(item.name), o)
            /\ results' = Append(results,
                    IF r.raised
                    THEN [name |-> batch[pos].name, status |-> "failed"]
                    ELSE [name |-> preprocess_data(item).name, status |-> "success"])
            /\ llm' = IF batch[pos].description \in {Absent, ""} THEN answer ELSE "unused"
    /\ pos' = pos + 1
    /\ UNCHANGED <<facts, now, last, nodes, run, batch, report, queueVars,
                   retry, txs, weighing>>

\* node_pairs: the pairs of filtered items, in order, whose names differ.
NodePairs(filtered) ==
    LET n == Len(filtered)
        all == [k \in 1..(n * n) |-> <<((k - 1) \div n) + 1, ((k - 1) % n) + 1>>]
    IN  SelectSeq(all, LAMBDA p : p[1] < p[2] /\ filtered[p[1]].name # filtered[p[2]].name)

StageResponses ==
    {Response("exception", <<>>), Response("list", <<>>),
     Response("list", <<Proposal("NEARBY", Props("props 1"), TRUE)>>),
     Response("list", <<Proposal("NEARBY", Props("props 1"), FALSE)>>)}
StageAnswers ==
    {[get |-> "ok", create |-> c, io |-> "ok", enc |-> "ok"] :
        c \in {[nodes |-> "ok", rel |-> "ok"], [nodes |-> "raise", rel |-> "ok"]}}

\* A turn of the pair loop raises out of process_json_chunk when it reads
\* node['name'] of a node without name: the except clause of line 308 formats
\* both names itself.
PairRaises(n1, n2, response) ==
    \/ n1 = Absent
    \/ /\ n2 = Absent
       /\ \/ response.kind # "list"
          \/ \E k \in 1..Len(response.relationships) : response.relationships[k].complete

\* The pair loop of the relationship stage over node_pairs and responses.
RECURSIVE StagePairs(_, _, _, _, _, _, _)
StagePairs(st, file, filtered, pairs, responses, k, o) ==
    IF k > Len(pairs) THEN [store |-> st, file |-> file, raised |-> FALSE]
    ELSE LET n1 == filtered[pairs[k][1]].name
             n2 == filtered[pairs[k][2]].name
         IN  IF PairRaises(n1, n2, responses[k])
             THEN [store |-> st, file |-> file, raised |-> TRUE]
             ELSE LET r == RelationshipPair(st, file, n1, n2, responses[k], o)
                  IN  StagePairs(r.store, r.file, filtered, pairs, responses, k + 1, o)

\* The report of process_json_files (one chunk: the lists are no longer than batch_size).
Report(rs) ==
    [status |-> "success",
     processed |-> Cardinality({k \in 1..Len(rs) : rs[k].status = "success"}),
     failed |-> Cardinality({k \in 1..Len(rs) : rs[k].status = "failed"}),
     details |-> rs]

\* process_json_chunk after the node loop: the filter, the relationship stage
\* and the return to process_json_files or to the caller.
FinishChunk ==
    /\ run = "chunk"
    /\ pos > Len(batch)
    /\ IF \E i \in 1..Len(batch) : PercentageRaises(batch[i])
       THEN /\ run' = "failed"
            /\ report' = IF nodes = <<>> THEN RaisedReport ELSE FailedReport
            /\ UNCHANGED <<store, conflictQueue>>
       ELSE LET filtered == SelectSeq(batch, LAMBDA item : VisitorPercentage(item) > 0)
                pairs == NodePairs(filtered)
            IN  \E responses \in [1..Len(pairs) -> StageResponses], o \in StageAnswers :
                    LET r == StagePairs(store, conflictQueue, filtered, pairs, responses, 1, o)
                    IN  /\ store' = r.store
                        /\ conflictQueue' = r.file
                        /\ run' = IF r.raised THEN "failed" ELSE "done"
                        /\ report' = IF r.raised
                                     THEN (IF nodes = <<>> THEN RaisedReport ELSE FailedReport)
                                     ELSE Report(results)
    /\ UNCHANGED <<facts, now, last, call, applied, nCalls, nLogged, nodes, batch, pos,
                   results, readLog, stage, laterVars>>

NextBatch == ReadNodes \/ ProcessItemNoName \/ ProcessItem \/ FinishChunk \/ Tick

SpecBatch == InitBatch /\ [][NextBatch]_vars

\* ------------------------------- relationship writers and the queue, over runs
\* Pairs of one source with two targets (the stage takes the names as they
\* are in the file), and the two directions of a pair.
StagePairPool == {<<POTALA, NAMUCUO>>, <<POTALA, NAMUCUO_ALIAS>>}
RelPairs == {<<POTALA, NAMUCUO>>, <<NAMUCUO, POTALA>>}
RelTypes == {"NEARBY", "SIMILAR_TYPE"}

ProposalPool ==
    {Proposal("NEARBY", Props(t), TRUE) : t \in PropTexts}
    \cup {Proposal("SIMILAR_TYPE", Props("props 1"), TRUE)}

Responses ==
    {Response("exception", <<>>), Response("unparsable", <<>>)}
    \cup {Response("list", rs) : rs \in UNION {[1..n -> ProposalPool] : n \in 0..MaxProposals}}

\* The answers of the store, the queue file and the encoder during one turn:
\* all fine, or one of them failing.
AllFine == [get |-> "ok", create |-> [nodes |-> "ok", rel |-> "ok"], io |-> "ok", enc |-> "ok"]
RelAnswers ==
    {AllFine, [AllFine EXCEPT !.get = "raise"], [AllFine EXCEPT !.io = "fail"],
     [AllFine EXCEPT !.enc = "fail"], [AllFine EXCEPT !.create.rel = "raise"]}

\* One turn of the pair loop of process_json_chunk (lines 274-309).
RelationshipStage ==
    /\ stage.n < MaxStages
    /\ \E pair \in StagePairPool, response \in Responses, o \in RelAnswers :
        LET r == RelationshipPair(store, conflictQueue, pair[1], pair[2], response, o)
        IN  /\ store' = r.store
            /\ conflictQueue' = r.file
            /\ stage' = [n |-> stage.n + 1, n1 |-> pair[1], n2 |-> pair[2],
                         response |-> response, answers |-> o,
                         existing_rels |-> get_relationships(store, pair[1], o.get),
                         flagged |-> [k \in 1..Len(response.relationships) |->
                            check_relationship_conflict(
                                Edge(pair[1], pair[2], response.relationships[k].type,
                                     response.relationships[k].properties),
                                get_relationships(store, pair[1], o.get), o.enc)],
                         storeBefore |-> store, fileBefore |-> conflictQueue]
    /\ UNCHANGED <<facts, now, last, call, applied, nCalls, nLogged, batchVars, readLog, laterVars>>

\* main, after process_json_files: open(conflict_queue_path, 'w'); json.dump([], f).
TruncateQueue ==
    /\ conflictQueue' = <<ListLine>>
    /\ UNCHANGED <<facts, now, last, mergeVars, batchVars, readLog, stage, laterVars>>

GetConflictLog ==
    /\ readLog' = get_conflict_log(conflictQueue)
    /\ UNCHANGED <<facts, now, last, mergeVars, batchVars, conflictQueue, stage, laterVars>>

NextRel == RelationshipStage \/ TruncateQueue \/ GetConflictLog

SpecRel == Init /\ [][NextRel]_vars

\* ------------------------------------------------- the three writers of edges
\* Neo4jCRUD.create_relationship, called with a pair of names.
CreateRelationship ==
    /\ \E pair \in RelPairs, t \in {"props 2", "props 3"}, o \in CreateOutcomes :
        store' = create_relationship(store, pair[1], pair[2], "NEARBY", Props(t), o)
    /\ UNCHANGED <<facts, now, last, call, applied, nCalls, nLogged, batchVars, queueVars, laterVars>>

\* generate_additional_relationships: one create_relationship_in_db call.
CreateRelationshipInDb ==
    /\ \E pair \in RelPairs, t \in {"props 1", "props 2"}, o \in {"ok", "raise"} :
        store' = create_relationship_in_db(store, pair[1], pair[2], "NEARBY",
                                           GeneratorProps(t), o)
    /\ UNCHANGED <<facts, now, last, call, applied, nCalls, nLogged, batchVars, queueVars, laterVars>>

\* A merge of one of the two entities of the pairs.
RelFacts ==
    {Data(POTALA, Absent, Absent, Absent, GivenStamp(0)),
     Data(NAMUCUO, Absent, Absent, "text 1", GivenStamp(0))}
UpdateInRun ==
    /\ nCalls < MaxCalls
    /\ \E data \in RelFacts, o \in ReachedOutcomes :
        Merge(data, CrawlLogId(data.name), o)
    /\ UNCHANGED <<facts, now, last, batchVars, queueVars, laterVars>>

NextEdges == UpdateInRun \/ CreateRelationship \/ CreateRelationshipInDb

SpecEdges == Init /\ [][NextEdges]_vars

\* ----------------------------------------------------- reading a queue file
QueueLines ==
    {Line("record", <<POTALA, NAMUCUO, t>>, Edge(POTALA, NAMUCUO, t, Props("props 1"))) :
        t \in RelTypes}
    \cup {ListLine, MalformedLine, UnreadableLine}

QueueFiles == UNION {[1..n -> QueueLines] : n \in 0..MaxLines}

InitQueue ==
    /\ facts = <<>>
    /\ now = 0
    /\ last = NoResult
    /\ store = EmptyStore
    /\ call = NoCall
    /\ applied = <<>>
    /\ nCalls = 0
    /\ nLogged = 0
    /\ nodes = <<>>
    /\ run = "none"
    /\ batch = <<>>
    /\ pos = 1
    /\ results = <<>>
    /\ report = NoReport
    /\ conflictQueue \in QueueFiles
    /\ readLog = NoRead
    /\ stage = NoStage
    /\ llm = "none"
    /\ retry = NoRetry
    /\ txs = NoTxs
    /\ weighing = NoWeighing

\* ConflictResolver.log_conflict, called with a record.
LogConflict ==
    /\ Len(conflictQueue) < MaxLines
    /\ \E l \in {l \in QueueLines : l.kind = "record"}, io \in {"ok", "fail"} :
        conflictQueue' = log_conflict(conflictQueue, l, io)
    /\ UNCHANGED <<facts, now, last, mergeVars, batchVars, readLog, stage, laterVars>>

NextQueue == GetConflictLog \/ LogConflict

SpecQueue == InitQueue /\ [][NextQueue]_vars

\* --------------------------- update_knowledge_graph calls that run concurrently
\* Facts about one entity with two attribute sets, about the same entity under
\* its alias, and about another entity.
SessionFacts ==
    {Data(NAMUCUO, LHASA, "address 1", "text 1", GivenStamp(0)),
     Data(NAMUCUO, SHIGATSE, Absent, "text 2", GivenStamp(0)),
     Data(NAMUCUO_ALIAS, LHASA, Absent, "text 2", GivenStamp(0)),
     Data(POTALA, LHASA, Absent, "text 1", GivenStamp(0))}

\* update_knowledge_graph is called in a session: the name is checked and
\* normalized, and the transaction begins.  The log_id is the one of the
\* pipeline or one of the caller's own.
BeginUpdate(s) ==
    /\ txs[s].pc = "idle"
    /\ \E data \in SessionFacts,
          o \in {o \in ReachedOutcomes :
                    o.attraction = "ok" /\ o.city \in {"ok", "none"} /\ o.rel = "ok"} :
        \E log_id \in {CrawlLogId(data.name), "log 1"} :
            txs' = [txs EXCEPT ![s] =
                IF data.name \in {Absent, ""}
                THEN Session("raised", data, log_id, o, <<>>)
                ELSE Session("attraction", preprocess_data(data), log_id, o, <<>>)]
    /\ UNCHANGED <<facts, now, last, mergeVars, batchVars, queueVars, llm, retry, weighing>>

\* The session runs the next statement of tx_work.
RunStatement(s) ==
    /\ txs[s].pc \in {"attraction", "city", "edge", "log"}
    /\ txs' = [txs EXCEPT ![s] = Statement(@, Reason, Weights, now)]
    /\ UNCHANGED <<facts, now, last, mergeVars, batchVars, queueVars, llm, retry, weighing>>

\* tx_work has returned: execute_write commits.
CommitUpdate(s) ==
    /\ txs[s].pc = "commit"
    /\ store' = Commit(store, txs[s].buffer)
    /\ txs' = [txs EXCEPT ![s].pc = "returned"]
    /\ UNCHANGED <<facts, now, last, call, applied, nCalls, nLogged, batchVars, queueVars,
                   llm, retry, weighing>>

NextSessions == \E s \in Sessions : BeginUpdate(s) \/ RunStatement(s) \/ CommitUpdate(s)

SpecSessions == Init /\ [][NextSessions]_vars

\* ------------------------------------------------ a compute_dynamic_weight call
\* The arguments: ratings absent, text, or a number (in tenths, also below 0
\* and above 5); source_type "crawler", "manual" or absent; a timestamp.
InitWeight ==
    /\ facts = <<>>
    /\ now = 0
    /\ last = NoResult
    /\ store = EmptyStore
    /\ call = NoCall
    /\ applied = <<>>
    /\ nCalls = 0
    /\ nLogged = 0
    /\ nodes = <<>>
    /\ run = "none"
    /\ batch = <<>>
    /\ pos = 1
    /\ results = <<>>
    /\ report = NoReport
    /\ conflictQueue = <<>>
    /\ readLog = NoRead
    /\ stage = NoStage
    /\ llm = "none"
    /\ retry = NoRetry
    /\ txs = NoTxs
    /\ \E r \in {Rating("absent", 0), Rating("text", 0)}
                    \cup {Rating("number", t) : t \in {0 - 10, 25, 50, 100}},
          t \in {"crawler", "manual", Absent}, ts \in Timestamps :
        weighing = Weighing(FALSE, [source_type |-> t, pub_timestamp |-> ts],
                            [ratings |-> r], 0, 0)

ComputeDynamicWeight ==
    /\ weighing' = [weighing EXCEPT
            !.called = TRUE,
            !.result = compute_dynamic_weight(weighing.data, weighing.metrics, now),
            !.at = now]
    /\ UNCHANGED <<facts, now, last, mergeVars, batchVars, queueVars, llm, retry, txs>>

NextWeight == ComputeDynamicWeight \/ Tick

SpecWeight == InitWeight /\ [][NextWeight]_vars

\* ------------------------------------------- a call_deepseek_with_retry call
InitRetry ==
    /\ facts = <<>>
    /\ now = 0
    /\ last = NoResult
    /\ store = EmptyStore
    /\ call = NoCall
    /\ applied = <<>>
    /\ nCalls = 0
    /\ nLogged = 0
    /\ nodes = <<>>
    /\ run = "none"
    /\ batch = <<>>
    /\ pos = 1
    /\ results = <<>>
    /\ report = NoReport
    /\ conflictQueue = <<>>
    /\ readLog = NoRead
    /\ stage = NoStage
    /\ llm = "none"
    /\ retry = [attempts |-> <<>>, state |-> "running"]
    /\ txs = NoTxs
    /\ weighing = NoWeighing

\* One attempt of the call; the API key is read from the configuration, so
\* it is missing at the first attempt or never.
Attempt ==
    /\ retry.state = "running"
    /\ \E outcome \in AttemptOutcomes :
        /\ outcome.kind = "no key" => retry.attempts = <<>>
        /\ retry' = call_deepseek_with_retry(retry.attempts, outcome)
    /\ UNCHANGED <<facts, now, last, mergeVars, batchVars, queueVars, llm, txs, weighing>>

NextRetry == Attempt

SpecRetry == InitRetry /\ [][NextRetry]_vars

\* ------------------------------------------------------- resolver behaviour
InitResolve ==
    /\ facts \in FactLists
    /\ now = 0
    /\ last = NoResult
    /\ store = EmptyStore
    /\ call = NoCall
    /\ applied = <<>>
    /\ nCalls = 0
    /\ nLogged = 0
    /\ nodes = <<>>
    /\ run = "none"
    /\ batch = <<>>
    /\ pos = 1
    /\ results = <<>>
    /\ report = NoReport
    /\ conflictQueue = <<>>
    /\ readLog = NoRead
    /\ stage = NoStage
    /\ llm = "none"
    /\ retry = NoRetry
    /\ txs = NoTxs
    /\ weighing = NoWeighing

CallWeightFirst ==
    /\ last' = resolve_conflict_weight_first(facts)
    /\ UNCHANGED <<facts, now, mergeVars, batchVars, queueVars, laterVars>>

CallLatestFirst ==
    /\ last' = resolve_conflict_latest_first(facts)
    /\ UNCHANGED <<facts, now, mergeVars, batchVars, queueVars, laterVars>>

CallHybrid ==
    /\ last' = resolve_conflict_with_hybrid(facts, now)
    /\ UNCHANGED <<facts, now, mergeVars, batchVars, queueVars, laterVars>>

NextResolve == CallWeightFirst \/ CallLatestFirst \/ CallHybrid \/ Tick

SpecResolve == InitResolve /\ [][NextResolve]_vars

\* ==================================================================== claims
ValidTimestamp(f) == f.timestamp.kind \in {"naive", "aware"}
Called(op) == last.op = op /\ facts # <<>>

\* C1: for every non-empty list, each of the three resolvers returns exactly
\* one winner, and the winner is one of the facts of the input list.
C1_WinnerFromInput ==
    (last.op # "none" /\ facts # <<>>) =>
        (~last.raised /\ last.winner \in 1..Len(facts))

\* C5: resolve_conflict_latest_first returns the fact with the latest valid
\* timestamp, and never a fact with a missing or unparsable timestamp when the
\* list holds a fact with a valid one.
C5_LatestValidWins ==
    (Called("latest") /\ \E i \in 1..Len(facts) : ValidTimestamp(facts[i])) =>
        /\ ~last.raised
        /\ last.winner \in 1..Len(facts)
        /\ ValidTimestamp(facts[last.winner])
        /\ \A j \in 1..Len(facts) :
            ValidTimestamp(facts[j]) =>
                facts[j].timestamp.day <= facts[last.winner].timestamp.day

\* The score of the specification, from the fact's own fields: 0.3 freshness
\* only for a fact that has no usable timestamp.
ClaimedFreshness(f, clock) ==
    IF ValidTimestamp(f)
    THEN 3650 - 7 * Min(365, clock - f.timestamp.day)
    ELSE 1095
ClaimedQuality(f) == Min(200, f.len) + 200
ClaimedScore(f, clock) ==
    1752 * (IF f.hasWeight THEN f.weight ELSE 50)
    + 24 * ClaimedFreshness(f, clock) + 73 * ClaimedQuality(f)

\* C6: resolve_conflict_with_hybrid scores each fact
\* 0.6*base_weight + 0.3*time_freshness + 0.1*content_quality, the freshness
\* computed from the fact's timestamp, and returns the first fact of maximal score.
C6_HybridScore ==
    Called("hybrid") =>
        /\ \A i \in 1..Len(facts) : last.scores[i] = ClaimedScore(facts[i], last.at)
        /\ last.winner \in 1..Len(facts)
        /\ \A j \in 1..Len(facts) :
            \/ ClaimedScore(facts[j], last.at) < ClaimedScore(facts[last.winner], last.at)
            \/ (ClaimedScore(facts[j], last.at) = ClaimedScore(facts[last.winner], last.at)
                /\ last.winner <= j)

\* C7: resolve_conflict_weight_first returns the fact of greatest source
\* weight and, among the facts of greatest weight, the first of the input list,
\* whatever the timestamps and the values.
AllWeighted == \A i \in 1..Len(facts) : facts[i].hasWeight
C7_WeightFirst ==
    (Called("weight") /\ AllWeighted) =>
        /\ ~last.raised
        /\ last.winner \in 1..Len(facts)
        /\ \A j \in 1..Len(facts) :
            \/ facts[j].weight < facts[last.winner].weight
            \/ (facts[j].weight = facts[last.winner].weight /\ last.winner <= j)

\* C7 happens: two facts tie on the greatest weight, differ in timestamp or
\* value, and the first one is returned; and a heavier, older second fact wins.
C7_Witness ==
    /\ Called("weight") /\ AllWeighted /\ Len(facts) = 2
    /\ \/ (facts[1].weight = facts[2].weight /\ facts[1] # facts[2] /\ last.winner = 1)
       \/ (facts[1].weight < facts[2].weight /\ facts[2].timestamp.kind = "missing"
           /\ ValidTimestamp(facts[1]) /\ last.winner = 2)

\* C8: two calls of resolve_conflict_with_hybrid on the same list, made at any
\* two moments, return the same winner and the same per-candidate scores.
C8_HybridDeterministic ==
    [][(last.op = "hybrid" /\ last'.op = "hybrid") =>
            (last'.winner = last.winner /\ last'.scores = last.scores)]_vars

\* C9: the explanation of resolve_conflict_with_hybrid holds one entry per
\* input fact, each with that fact's final score and components, also for two
\* (different) candidates of the same source URL or without a URL.
DifferentFacts == \A i, j \in 1..Len(facts) : i # j => facts[i] # facts[j]
C9_EntryPerCandidate ==
    (Called("hybrid") /\ DifferentFacts) =>
        /\ Cardinality(last.explanation) = Len(facts)
        /\ \A i \in 1..Len(facts) :
            \E e \in last.explanation :
                e.final_score = last.scores[i] /\ e.details = last.details[i]

\* C2: applying the same accepted fact a second time leaves the entity node
\* with exactly the attribute values it had after the first application.
C2_MergeIdempotent ==
    (call.outcome = "returned" /\ call.reapplied /\ "attraction" \in call.writes) =>
        /\ call.data.name \in DOMAIN store.attractions
        /\ <<store.attractions[call.data.name]>> = call.nodeBefore

\* C3: every applied merge adds exactly one UpdateLog entry, re-applications
\* with the same log_id included: n applied merges leave n entries.
C3_OneLogPerMerge ==
    Cardinality(DOMAIN store.updateLogs) = nLogged

\* C4: once update_knowledge_graph has returned or raised, the entity upsert
\* of the call is committed if and only if its UpdateLog entry is committed.
C4_EntityIffLog ==
    call.outcome # "none" =>
        (("attraction" \in call.writes) <=> ("log" \in call.writes))

\* C10: when an incoming fact carries, for an attribute of an entity, a
\* non-empty value that differs from the non-empty value the store holds, the
\* conflict is detected before the merge: the stored value is not overwritten
\* without a conflict recorded for the entity.
OverwritesDifferentValue ==
    /\ call.outcome = "returned" /\ "attraction" \in call.writes
    /\ call.nodeBefore # <<>>
    /\ call.nodeBefore[1].description # ""
    /\ call.data.description \notin {Absent, ""}
    /\ call.data.description # call.nodeBefore[1].description
C10_ConflictDetected ==
    OverwritesDifferentValue =>
        \E k \in 1..Len(conflictQueue) :
            /\ conflictQueue[k].kind = "record"
            /\ conflictQueue[k].entity_name = <<call.data.name>>

\* ------------------------------------------------------------ relationships
StageProposals == stage.response.relationships
StageRel(k) ==
    Edge(stage.n1, stage.n2, StageProposals[k].type, StageProposals[k].properties)
SameKey(r, e) ==
    /\ r.source_name = e.source_name /\ r.target_name = e.target_name /\ r.type = e.type
StageSimilarity(k, e) ==
    compute_semantic_similarity(json_dumps(StageProposals[k].properties),
                                json_dumps(e.properties), stage.answers.enc)
AtLeastThreshold(similarity) == 10 * similarity >= 7 * SimOne

\* C11: check_relationship_conflict flags a proposal exactly when an existing
\* edge has its (source_name, target_name, type) and the similarity of the two
\* serialized property sets is at least 0.7; similarity 0 and a proposal that
\* matches no edge are not flagged.
C11_FlaggedIffSimilar ==
    stage.n > 0 =>
        \A k \in 1..Len(StageProposals) :
            stage.flagged[k] <=>
                \E j \in 1..Len(stage.existing_rels) :
                    /\ SameKey(StageRel(k), stage.existing_rels[j])
                    /\ AtLeastThreshold(StageSimilarity(k, stage.existing_rels[j]))

\* C11 happens: a proposal is flagged against an edge of its key whose
\* properties differ, and another one of the same key stays just below 0.7
\* and is not flagged.
C11_Witness ==
    /\ stage.n > 0 /\ Len(StageProposals) = 2
    /\ stage.flagged[1] /\ ~stage.flagged[2]
    /\ \E j \in 1..Len(stage.existing_rels) :
        /\ SameKey(StageRel(1), stage.existing_rels[j])
        /\ SameKey(StageRel(2), stage.existing_rels[j])
        /\ StageSimilarity(1, stage.existing_rels[j]) = 11744052
        /\ StageSimilarity(2, stage.existing_rels[j]) = 11744051

\* The store and the queue file after the first k proposals of the latest turn.
AfterProposal(k) ==
    ApplyProposals(stage.storeBefore, stage.fileBefore, stage.existing_rels,
                   stage.n1, stage.n2, SubSeq(StageProposals, 1, k), stage.answers)
NearDuplicate(k, rels) ==
    \E j \in 1..Len(rels) :
        /\ SameKey(StageRel(k), rels[j])
        /\ AtLeastThreshold(StageSimilarity(k, rels[j]))

\* C12: in the relationship stage, a proposal that is a near-duplicate
\* (similarity >= 0.7) of an edge written earlier, also one written from the
\* same response, is flagged: it is appended to the conflict queue and the
\* store is left as it was.
C12_FlaggedNotApplied ==
    (stage.n > 0 /\ stage.response.kind = "list") =>
        \A k \in 1..Len(StageProposals) :
            (StageProposals[k].complete
             /\ NearDuplicate(k, AfterProposal(k - 1).store.rels)) =>
                /\ AfterProposal(k).store = AfterProposal(k - 1).store
                /\ AfterProposal(k).file =
                        Append(AfterProposal(k - 1).file,
                               Line("record", <<stage.n1, stage.n2, StageProposals[k].type>>,
                                    StageRel(k)))

\* C13: the store never holds two edges with the same (source, target, type).
C13_NoDuplicateEdges ==
    \A i, j \in 1..Len(store.rels) : SameKey(store.rels[i], store.rels[j]) => i = j

\* C13 happens: an edge that create_relationship_in_db created was upserted
\* again by create_relationship, which changed its properties in place, next
\* to a LOCATED_IN edge written by a merge.
C13_Witness ==
    /\ \E k \in 1..Len(store.rels) :
        store.rels[k].properties = [GeneratorProps("props 1") EXCEPT !.reason_confidence = "props 3"]
    /\ \E k \in 1..Len(store.rels) : store.rels[k].type = "LOCATED_IN"
    /\ nCalls = 2 /\ call.reapplied /\ "edge" \in call.writes

\* ------------------------------------------------------------------ merges
\* C14: names are normalized before every merge, the entity name and the
\* container name alike: the store holds no node under an alias of the alias
\* table, neither an Attraction under an alternate spelling nor a City under
\* the name of a county of the canonical city.
C14_CanonicalNodes ==
    /\ \A c \in store.cities : normalize_location(c) = c
    /\ \A n \in DOMAIN store.attractions : preprocess_data([name |-> n]).name = n

\* The latest call ran its transaction and the entity upsert succeeded.
EntityUpsertDone ==
    /\ call.outcome # "none"
    /\ call.data.name \notin {Absent, ""} /\ call.data.location # ""
    /\ call.answers.attraction = "ok"

\* C15: when the City upsert or the LOCATED_IN upsert fails after the entity
\* upsert succeeded, update_knowledge_graph does not raise and does not roll
\* back: the entity node is committed and the UpdateLog entry is appended.
C15_ContinuesAfterFailure ==
    (EntityUpsertDone /\ call.answers.log = "ok"
     /\ (call.answers.city # "ok" \/ call.answers.rel # "ok")) =>
        /\ call.outcome = "returned"
        /\ "attraction" \in call.writes
        /\ "log" \in call.writes

\* C16: an UpdateLog entry, once written, is never changed nor removed by a
\* later step.
C16_LogAppendOnly ==
    [][\A id \in DOMAIN store.updateLogs :
            /\ id \in DOMAIN store'.updateLogs
            /\ store'.updateLogs[id] = store.updateLogs[id]]_vars

\* --------------------------------------------------------- the conflict queue
\* C17: a record appended by log_conflict stays in the queue file: no later
\* step of the run truncates or overwrites the records queued so far, and
\* get_conflict_log returns them.
C17_QueueDurable ==
    [][\A k \in 1..Len(conflictQueue) :
            conflictQueue[k].kind = "record" =>
                /\ k <= Len(conflictQueue')
                /\ conflictQueue'[k] = conflictQueue[k]]_vars

ValidLine(l) == l.kind \in {"record", "list"}

\* C18: for a file with any mix of valid and malformed lines, get_conflict_log
\* returns exactly the records of the valid lines, in file order, logs one
\* error per malformed line, and does not abort.
C18_ReadSkipsMalformed ==
    readLog.read =>
        /\ ~readLog.aborted
        /\ readLog.conflicts = SelectSeq(readLog.file, ValidLine)
        /\ readLog.errors =
                Cardinality({k \in 1..Len(readLog.file) : ~ValidLine(readLog.file[k])})

\* ------------------------------------------------------------- the batch run
\* C19: no failure of a single item aborts the batch: the run ends with every
\* item handled and, through process_json_files, with the report of the
\* counts of succeeded and failed items.
C19_NoItemAbortsBatch ==
    run \in {"done", "failed"} =>
        /\ run = "done"
        /\ Len(results) = Len(batch)
        /\ nodes # <<>> =>
            /\ report.status = "success"
            /\ report.processed + report.failed = Len(batch)

\* C20: nothing is silently dropped: an item the report marks as success has
\* its entity node and its audit entry in the store, and every item of the
\* input has an outcome (applied or failed; nothing is queued by the node loop).
C20_NothingDropped ==
    /\ \A k \in 1..Len(results) :
        results[k].status = "success" =>
            /\ results[k].name \in DOMAIN store.attractions
            /\ \E id \in DOMAIN store.updateLogs :
                store.updateLogs[id].entity_name = results[k].name
    /\ (run = "done" /\ nodes # <<>>) => Len(results) = Len(nodes)

\* ------------------------------------------------------- the collaborator
\* C21: when the collaborator call of an item fails after its retries, the
\* item is marked failed in the batch report; it is never reported as success
\* with a substituted value.
C21_ExhaustedIsFailed ==
    (llm = "fail" /\ results # <<>>) => results[Len(results)].status = "failed"

\* A further attempt follows only a transient transport failure: no
\* connection, a timeout, or a server-error status.
Transient(outcome) ==
    \/ outcome.kind \in {"ConnectError", "ReadTimeout"}
    \/ (outcome.kind = "HTTPStatusError" /\ outcome.status >= 500)

\* C22: call_deepseek_with_retry makes at most 3 attempts, and an attempt
\* that is followed by another one ended in a transient transport failure,
\* never in a missing API key or a client-error status.
C22_RetryOnlyTransient ==
    /\ Len(retry.attempts) <= 3
    /\ \A k \in 1..(Len(retry.attempts) - 1) : Transient(retry.attempts[k])

\* ------------------------------------------------------- concurrent merges
\* A session whose merge is committed with all its writes.
Merged(s) == txs[s].pc = "returned" /\ Len(txs[s].buffer) = 4
MergedNode(s) == attraction_data(txs[s].data, now)

\* C23: after two concurrent merges of the same entity name the entity node
\* holds the complete attribute set of one of them, and each merge has its own
\* audit entry; after two merges of different names each node holds the
\* attribute set of its own merge.
C23_MergesSerialized ==
    (Merged(1) /\ Merged(2)) =>
        IF txs[1].data.name = txs[2].data.name
        THEN /\ store.attractions[txs[1].data.name] \in {MergedNode(1), MergedNode(2)}
             /\ Cardinality({id \in DOMAIN store.updateLogs :
                    store.updateLogs[id].entity_name = txs[1].data.name}) = 2
        ELSE \A s \in Sessions : store.attractions[txs[s].data.name] = MergedNode(s)

\* ---------------------------------------------------------------- resolvers
\* C24: for an empty list each of the three resolvers returns, without
\* raising, the no-winner sentinel together with an explanation stating that
\* no facts were supplied.
C24_EmptyListExplained ==
    (last.op # "none" /\ facts = <<>>) =>
        /\ ~last.raised
        /\ last.winner = 0
        /\ last.reason = NoFactsReason

\* The weight the specification gives a fact: 0.5 when its source has none.
ClaimedWeight(f) == IF f.hasWeight THEN f.weight ELSE 50

\* C25: a fact without source weight counts as weight 0.5 in every resolver:
\* resolve_conflict_weight_first returns a fact of greatest weight under that
\* reading (the fact without weight beats 0.4 and loses to 0.7), and
\* resolve_conflict_with_hybrid scores it with base_weight 0.5.
C25_DefaultWeightHalf ==
    /\ Called("weight") =>
        /\ last.winner \in 1..Len(facts)
        /\ \A j \in 1..Len(facts) :
            ClaimedWeight(facts[j]) <= ClaimedWeight(facts[last.winner])
    /\ Called("hybrid") =>
        \A i \in 1..Len(facts) : last.details[i].base_weight = ClaimedWeight(facts[i])

\* C26: the components of the hybrid score stay in range for every fact:
\* time_freshness within [0.3, 1.0] and exactly 0.3 for a missing timestamp,
\* content_quality within [0.5, 1.0].
C26_ComponentsInRange ==
    Called("hybrid") =>
        \A i \in 1..Len(facts) :
            /\ last.details[i].time_freshness >= 1095
            /\ last.details[i].time_freshness <= 3650
            /\ facts[i].timestamp.kind = "missing" => last.details[i].time_freshness = 1095
            /\ last.details[i].content_quality >= 200
            /\ last.details[i].content_quality <= 400

\* Two facts of equal weight 0.7 whose timestamps are three years apart.
EqualWeightScenario ==
    /\ Len(facts) = 2
    /\ \A i \in 1..2 : facts[i].hasWeight /\ facts[i].weight = 70 /\ ValidTimestamp(facts[i])
    /\ facts[1].timestamp.kind = facts[2].timestamp.kind
    /\ facts[1].timestamp.day - facts[2].timestamp.day \in {ScenarioDays, 0 - ScenarioDays}

\* C27: for two facts of equal source weight 0.7 with timestamps three years
\* apart, resolve_conflict_with_hybrid returns the fact with the newer
\* timestamp, at every moment of the call and for all value lengths.
C27_NewerWinsOnEqualWeight ==
    (Called("hybrid") /\ EqualWeightScenario) =>
        /\ last.winner \in 1..2
        /\ \A j \in 1..2 : facts[j].timestamp.day <= facts[last.winner].timestamp.day

\* ------------------------------------------------------------ dynamic weight
\* The weight of the specification, in 1/182500: clamp(rating/5, 0, 1) times
\* the multiplier of the source type times max(0, 1 - age_days/365).
ClaimedDynamicWeight(data, metrics, clock) ==
    Min(182500,
        Max(0, Min(50, metrics.ratings.tenths))
        * (IF data.source_type = "crawler" THEN 8 ELSE 10)
        * Max(0, 365 - (clock - data.pub_timestamp.day)))

\* C28: compute_dynamic_weight returns clamp(rating/5, 0, 1) times the
\* source-type multiplier times the freshness; the result is within [0, 1];
\* it is 0, without raising, when the rating or the timestamp cannot be parsed.
C28_DynamicWeight ==
    weighing.called =>
        /\ weighing.result >= 0 /\ weighing.result <= 182500
        /\ (weighing.metrics.ratings.kind = "text" \/ weighing.data.pub_timestamp.kind = "bad")
                => weighing.result = 0
        /\ (weighing.metrics.ratings.kind = "number"
            /\ weighing.data.pub_timestamp.kind \in {"naive", "aware"})
                => weighing.result =
                        ClaimedDynamicWeight(weighing.data, weighing.metrics, weighing.at)

\* ------------------------------------------------------------ merge effects
\* The latest call committed its entity upsert on a node that was there.
UpdatedExisting ==
    /\ call.outcome = "returned" /\ "attraction" \in call.writes
    /\ call.nodeBefore # <<>>

\* C29: a merge changes only the attributes the fact supplies: for an
\* attribute the fact carries no value for, the entity node keeps the value
\* it had before the merge.
C29_KeepsUnsuppliedAttributes ==
    UpdatedExisting =>
        LET node == store.attractions[call.data.name]
            before == call.nodeBefore[1]
        IN  /\ call.data.location = Absent => node.location = before.location
            /\ call.data.address = Absent => node.address = before.address
            /\ call.data.description = Absent => node.description = before.description
            /\ call.data.pub_timestamp = NoStamp => node.pub_timestamp = before.pub_timestamp

\* The LOCATED_IN edges that leave an Attraction node.
LocatedIn(st, name) ==
    SelectSeq(st.rels, LAMBDA r : r.source_name = name /\ r.type = "LOCATED_IN")

\* Every Attraction node has one LOCATED_IN edge, to the City of its location.
OneContainer(st) ==
    \A n \in DOMAIN st.attractions :
        /\ Len(LocatedIn(st, n)) = 1
        /\ LocatedIn(st, n)[1].target_name = st.attractions[n].location
        /\ st.attractions[n].location \in st.cities

\* C30: a successful merge keeps every Attraction node with exactly one
\* outgoing LOCATED_IN edge, to the City named by its current location; a
\* merge that changes the location leaves no edge to the former container.
C30_OneLocatedIn ==
    [][(/\ OneContainer(store)
        /\ nCalls' = nCalls + 1
        /\ call'.outcome = "returned"
        /\ call'.answers = [attraction |-> "ok", city |-> "ok", rel |-> "ok", log |-> "ok"])
            => OneContainer(store')]_vars

====
